---- MODULE Spec2Model ----
(***************************************************************************)
(* A model of octokit.resources.Resource: the lazy resource graph, the    *)
(* schema parser, URI-template binding and the verb dispatcher.           *)
(*                                                                         *)
(* Python values are tagged records (field t):                            *)
(*   null, num, str      JSON scalars; a string is a sequence of parts,    *)
(*                       each a literal or a URI-template variable         *)
(*   dict                an insertion-ordered sequence of [k, v] entries   *)
(*   list                a sequence of values                              *)
(*   res                 a Resource object (session, name, url, schema);   *)
(*                       an attribute never assigned holds Unset           *)
(*   err                 an exception raised instead of a value            *)
(* A dictionary key is held as the list key.split('_url') gives for it:   *)
(* "items_url" is <<"items", "">>, "name" is <<"name">>, "a_url_b_url" is  *)
(* <<"a", "_b", "">>.                                                      *)
(***************************************************************************)
EXTENDS Integers, Sequences, FiniteSets, TLC

VARIABLES nodes, sent, last

vars == <<nodes, sent, last>>

----------------------------------------------------------------------------
(* Python values *)

Unset == [t |-> "unset"]
None == [t |-> "null"]
JNum(n) == [t |-> "num", n |-> n]
JStr(parts) == [t |-> "str", s |-> parts]
JDict(kv) == [t |-> "dict", kv |-> kv]
JList(el) == [t |-> "list", el |-> el]
Err(e) == [t |-> "err", e |-> e, code |-> 0]
Bool(b) == [t |-> "bool", b |-> b]
IsErr(v) == v.t = "err"

Lit(s) == [k |-> "lit", s |-> s]
Var(s) == [k |-> "var", s |-> s]
Entry(k, v) == [k |-> k, v |-> v]

\* Python truth value of an object; Resource defines neither __bool__ nor
\* __len__, so a Resource is always true.
Truthy(v) ==
  CASE v.t = "null" -> FALSE
    [] v.t = "num" -> v.n # 0
    [] v.t = "str" -> Len(v.s) > 0
    [] v.t = "dict" -> Len(v.kv) > 0
    [] v.t = "list" -> Len(v.el) > 0
    [] v.t = "res" -> TRUE
    [] OTHER -> FALSE

HasKey(d, k) == \E i \in 1..Len(d.kv) : d.kv[i].k = k

DictGet(d, k) == d.kv[CHOOSE i \in 1..Len(d.kv) : d.kv[i].k = k].v

\* d[k] = v: an existing key keeps its position, a new key goes last.
DictSet(d, k, v) ==
  IF HasKey(d, k)
  THEN JDict([i \in 1..Len(d.kv) |-> IF d.kv[i].k = k THEN Entry(k, v) ELSE d.kv[i]])
  ELSE JDict(Append(d.kv, Entry(k, v)))

DictKeys(d) == [i \in 1..Len(d.kv) |-> d.kv[i].k]

\* key.endswith('_url'), on the split form of the key
endswith_url(key) == Len(key) > 1 /\ key[Len(key)] = ""

\* key.split('_url')[0]
split_url_0(key) == key[1]

----------------------------------------------------------------------------
(* inflection.humanize and inflection.singularize on the words the model   *)
(* uses.  humanize drops a trailing "_id", turns "_" into " ", lowercases  *)
(* and capitalises the first letter; singularize's last rule drops a      *)
(* trailing "s".                                                           *)

humanize(w) ==
  CASE w = "items" -> "Items"
    [] w = "item" -> "Item"
    [] w = "owner" -> "Owner"
    [] w = "name" -> "Name"
    [] w = "next" -> "Next"
    [] w = "forks" -> "Forks"
    [] w = "fork" -> "Fork"
    [] w = "url" -> "Url"
    [] w = "id" -> "Id"
    [] w = "a" -> "A"
    [] w = "avatar" -> "Avatar"
    [] w = "users_ids" -> "Users ids"
    [] w = "users_id" -> "Users"
    [] w = "user" -> "User"
    [] w = "root" -> "Root"
    [] OTHER -> w

singularize(w) ==
  CASE w = "items" -> "item"
    [] w = "Items" -> "Item"
    [] w = "forks" -> "fork"
    [] w = "Forks" -> "Fork"
    [] w = "users_ids" -> "users_id"
    [] w = "Users ids" -> "Users id"
    [] w = "Users" -> "User"
    [] OTHER -> w

----------------------------------------------------------------------------
StatusErr(e, code) == [t |-> "err", e |-> e, code |-> code]

\* octokit.exceptions.handle_status: raises the error of a 4xx or 5xx code
handle_status(status_code) ==
  IF status_code >= 500 THEN StatusErr("ServerError", status_code)
  ELSE IF status_code >= 400 THEN StatusErr("ClientError", status_code)
  ELSE None

----------------------------------------------------------------------------
(* Resource.__init__, parse_schema_dict, parse_schema_list *)

RECURSIVE Resource(_, _, _, _)
RECURSIVE parse_schema_dict(_, _)
RECURSIVE parse_schema_list(_, _, _)
RECURSIVE dict_loop(_, _, _, _)
RECURSIVE list_loop(_, _, _, _, _)

\* What reading item 0 of a Resource gives when Python falls back on
\* __getitem__ to iterate it ('url' in resource, for key in resource):
\* ensure_schema_loaded, then self.schema[0].
iter_resource(r) ==
  IF r.schema = Unset THEN Err("RecursionError")
  ELSE IF ~Truthy(r.schema) THEN Err("NestedFetch")
  ELSE Err("KeyError")

\* 'url' in schema (line 30): a boolean, or the exception it raises
contains_url(schema) ==
  CASE schema.t = "dict" -> Bool(HasKey(schema, <<"url">>))
    [] schema.t = "list" -> Bool(FALSE)
    [] schema.t = "res" -> iter_resource(schema)
    [] schema.t = "str" -> Bool(FALSE)
    [] OTHER -> Err("TypeError")

\* lines 23-27: the attributes set before the schema is looked at
init_url(session, url, name) ==
  [t |-> "res", session |-> session, name |-> name,
   url |-> IF Truthy(url) THEN url ELSE Unset,
   schema |-> IF Truthy(url) THEN JDict(<<>>) ELSE Unset]

\* line 32: self.schema = self.parse_schema_dict(schema)
init_parsed(self, parsed) ==
  IF IsErr(parsed) THEN parsed ELSE [self EXCEPT !.schema = parsed]

\* lines 30-32, c being the outcome of 'url' in schema
init_schema(self, schema, c) ==
  IF IsErr(c) THEN c
  ELSE init_parsed(IF c.b THEN [self EXCEPT !.url = DictGet(schema, <<"url">>)] ELSE self,
                   parse_schema_dict(self.session, schema))

\* Resource(session, url, schema, name): the node built, or the exception
Resource(session, url, schema, name) ==
  IF ~Truthy(schema) THEN init_url(session, url, name)
  ELSE init_schema(init_url(session, url, name), schema, contains_url(schema))

\* key.split('_url') where key is an element of a list that parse_schema_dict
\* iterates: a Resource answers through __getattr__('split')
split_of_element(e) ==
  CASE e.t = "res" -> IF e.schema = Unset THEN Err("RecursionError")
                      ELSE IF ~Truthy(e.schema) THEN Err("NestedFetch")
                      ELSE handle_status(404)
    [] e.t = "str" -> Err("TypeError")
    [] OTHER -> Err("AttributeError")

\* lines 95-107: what is stored for one key of data
dict_item(session, key, val) ==
  IF endswith_url(key)
  THEN IF Truthy(val)
       THEN Resource(session, val, None, humanize(split_url_0(key)))
       ELSE val
  ELSE IF val.t = "dict"
       THEN Resource(session, None, val, humanize(split_url_0(key)))
       ELSE IF val.t = "list"
            THEN parse_schema_list(session, val, split_url_0(key))
            ELSE val

\* schema[name] = item, then the rest of the loop
dict_store(session, data, i, schema, name, item) ==
  IF IsErr(item) THEN item
  ELSE dict_loop(session, data, i + 1, DictSet(schema, <<name>>, item))

\* the loop of lines 93-107 from the i-th key on
dict_loop(session, data, i, schema) ==
  IF i > Len(data.kv) THEN schema
  ELSE dict_store(session, data, i, schema, split_url_0(data.kv[i].k),
                  dict_item(session, data.kv[i].k, data.kv[i].v))

parse_schema_dict(session, data) ==
  CASE data.t = "dict" -> dict_loop(session, data, 1, JDict(<<>>))
    [] data.t = "list" -> IF Len(data.el) = 0 THEN JDict(<<>>)
                          ELSE split_of_element(data.el[1])
    [] data.t = "str" -> IF Len(data.s) = 0 THEN JDict(<<>>) ELSE Err("TypeError")
    [] data.t = "res" -> iter_resource(data)
    [] OTHER -> Err("TypeError")

\* schema.append(resource), then the rest of the loop with the new name
list_store(session, data, i, name, schema, resource) ==
  IF IsErr(resource) THEN resource
  ELSE list_loop(session, data, i + 1, name, Append(schema, resource))

\* the loop of lines 114-117 from the i-th element on; name is reassigned
\* on every pass
list_loop(session, data, i, name, schema) ==
  IF i > Len(data.el) THEN JList(schema)
  ELSE list_store(session, data, i, humanize(singularize(name)), schema,
                  Resource(session, None, data.el[i], humanize(singularize(name))))

parse_schema_list(session, data, name) == list_loop(session, data, 1, name, <<>>)

----------------------------------------------------------------------------
(* uritemplate.variables and uritemplate.expand; keyword arguments are an  *)
(* ordered sequence of [k, v] entries like a dict                          *)

variables(url) == {url.s[i].s : i \in {j \in 1..Len(url.s) : url.s[j].k = "var"}}

KwHas(kwargs, k) == \E i \in 1..Len(kwargs) : kwargs[i].k = k

KwGet(kwargs, k) == kwargs[CHOOSE i \in 1..Len(kwargs) : kwargs[i].k = k].v

KwSet(kwargs, k, v) ==
  IF KwHas(kwargs, k)
  THEN [i \in 1..Len(kwargs) |-> IF kwargs[i].k = k THEN Entry(k, v) ELSE kwargs[i]]
  ELSE Append(kwargs, Entry(k, v))

\* a bound variable is replaced by its value, an unbound one is left out
expand_part(p, kwargs) ==
  IF p.k = "lit" THEN <<p>>
  ELSE IF KwHas(kwargs, p.s) THEN <<Lit(KwGet(kwargs, p.s))>>
  ELSE <<>>

RECURSIVE expand_from(_, _, _)
expand_from(parts, i, kwargs) ==
  IF i > Len(parts) THEN <<>>
  ELSE expand_part(parts[i], kwargs) \o expand_from(parts, i + 1, kwargs)

expand(url, kwargs) == JStr(expand_from(url.s, 1, kwargs))

----------------------------------------------------------------------------
(* The transport: a response is a status code and a body text, which is   *)
(* empty or the text of one JSON value                                     *)

EmptyText == [t |-> "notext"]

Response(status_code, text) == [status_code |-> status_code, text |-> text]

Request(method, url, request_params) ==
  [method |-> method, url |-> url, params |-> request_params]

\* what a call did: the node it was called on afterwards, the requests it
\* sent, and the value it returned or the exception it raised
Done(node, reqs, out) == [node |-> node, reqs |-> reqs, out |-> out]

\* line 80: response.json() if response.text != "" else {}
decode(response) ==
  IF response.text # EmptyText THEN response.text ELSE JDict(<<>>)

\* parse_body as it would be if a bare value were taken for an empty object
parse_body_guess(self, data) ==
  IF data.t = "dict" THEN parse_schema_dict(self.session, data)
  ELSE IF data.t = "list" THEN parse_schema_list(self.session, data, self.name)
  ELSE JDict(<<>>)

\* lines 81-88
parse_body(self, data) ==
  IF data.t = "dict" THEN parse_schema_dict(self.session, data)
  ELSE IF data.t = "list" THEN parse_schema_list(self.session, data, self.name)
  ELSE Err("Exception")

\* fetch_schema as it would be with the body decoded and parsed before the
\* status is looked at
fetch_schema_body_first(self, req, response) ==
  Done(self, <<req>>,
       IF IsErr(parse_body(self, decode(response)))
       THEN parse_body(self, decode(response))
       ELSE IF IsErr(handle_status(response.status_code))
            THEN handle_status(response.status_code)
            ELSE parse_body(self, decode(response)))

\* fetch_schema as it would be if parsing fetched every link of the body
\* at once
fetch_schema_eager(self, req, response) ==
  LET data == decode(response)
      links == IF IsErr(handle_status(response.status_code)) \/ data.t # "dict"
               THEN <<>>
               ELSE SelectSeq(data.kv, LAMBDA e : endswith_url(e.k) /\ Truthy(e.v))
  IN Done(self,
          <<req>> \o [j \in 1..Len(links) |-> Request("GET", links[j].v, req.params)],
          IF IsErr(handle_status(response.status_code))
          THEN handle_status(response.status_code)
          ELSE parse_body(self, data))

\* Resource.fetch_schema: sends req, then checks the status, decodes and parses
fetch_schema(self, req, response) ==
  Done(self, <<req>>,
       IF IsErr(handle_status(response.status_code))
       THEN handle_status(response.status_code)
       ELSE parse_body(self, decode(response)))

\* reading self.url: an unassigned attribute goes through __getattr__('url')
read_url(self) ==
  IF self.url # Unset THEN self.url
  ELSE IF self.schema = Unset THEN Err("RecursionError")
  ELSE handle_status(404)

\* bind as it would be if the positional argument were never bound
bind_named_only(tmpl, args, kwargs) == kwargs

\* lines 183-185: the bindings the template is expanded with
bind(tmpl, args, kwargs) ==
  IF Len(args) = 1 /\ Cardinality(variables(tmpl)) = 1
  THEN KwSet(kwargs, CHOOSE v \in variables(tmpl) : TRUE, args[1])
  ELSE kwargs

\* wrap_schema as it would be if the verb call loaded the node it was
\* invoked on, the way ensure_schema_loaded does
wrap_schema_in_place(self, url, f) ==
  IF IsErr(f.out) THEN f
  ELSE Done([f.node EXCEPT !.schema = f.out], f.reqs,
            Resource(self.session, url, f.out, humanize(self.name)))

\* line 191, f being what fetch_schema did
wrap_schema(self, url, f) ==
  IF IsErr(f.out) THEN f
  ELSE Done(f.node, f.reqs, Resource(self.session, url, f.out, humanize(self.name)))

\* lines 188-192
send_request(self, method, request_params, url, response) ==
  wrap_schema(self, url,
              fetch_schema(self, Request(method, url, request_params), response))

\* lines 183-192, tmpl being the value of self.url
fetch_from(self, method, request_params, args, kwargs, response, tmpl) ==
  IF IsErr(tmpl) THEN Done(self, <<>>, tmpl)
  ELSE IF tmpl.t # "str" THEN Done(self, <<>>, Err("TypeError"))
  ELSE send_request(self, method, request_params,
                    expand(tmpl, bind(tmpl, args, kwargs)), response)

\* Resource.fetch_resource; args is the tuple of positional template
\* arguments, response what the transport answers if a request is sent
fetch_resource(self, method, request_params, args, kwargs, response) ==
  fetch_from(self, method, request_params, args, kwargs, response, read_url(self))

head(self, request_params, args, kwargs, response) ==
  fetch_resource(self, "HEAD", request_params, args, kwargs, response)

get(self, request_params, args, kwargs, response) ==
  fetch_resource(self, "GET", request_params, args, kwargs, response)

\* post is declared without self: the body's reference to self is a NameError
post(self, request_params, args, kwargs, response) ==
  Done(self, <<>>, Err("NameError"))

put(self, request_params, args, kwargs, response) ==
  fetch_resource(self, "PUT", request_params, args, kwargs, response)

patch(self, request_params, args, kwargs, response) ==
  fetch_resource(self, "PATCH", request_params, args, kwargs, response)

delete(self, request_params, args, kwargs, response) ==
  fetch_resource(self, "DELETE", request_params, args, kwargs, response)

options(self, request_params, args, kwargs, response) ==
  fetch_resource(self, "OPTIONS", request_params, args, kwargs, response)

Methods == {"HEAD", "GET", "POST", "PUT", "PATCH", "DELETE", "OPTIONS"}

\* the verb method of the given name
verb(method, self, request_params, args, kwargs, response) ==
  CASE method = "HEAD" -> head(self, request_params, args, kwargs, response)
    [] method = "GET" -> get(self, request_params, args, kwargs, response)
    [] method = "POST" -> post(self, request_params, args, kwargs, response)
    [] method = "PUT" -> put(self, request_params, args, kwargs, response)
    [] method = "PATCH" -> patch(self, request_params, args, kwargs, response)
    [] method = "DELETE" -> delete(self, request_params, args, kwargs, response)
    [] method = "OPTIONS" -> options(self, request_params, args, kwargs, response)

DefaultParams == "default"

\* Resource.__call__: the positional arguments are dropped
call(self, args, kwargs, response) == get(self, DefaultParams, <<>>, kwargs, response)

----------------------------------------------------------------------------
(* The accessors *)

\* store_schema as it would be if line 72 called self.get() a second time
\* to read the schema
store_schema_again(self, g) ==
  IF IsErr(g.out) THEN g
  ELSE Done([g.node EXCEPT !.schema = g.out.schema], g.reqs \o g.reqs, None)

\* line 72: self.schema = self.get().schema, g being what self.get() did
store_schema(self, g) ==
  IF IsErr(g.out) THEN g
  ELSE Done([g.node EXCEPT !.schema = g.out.schema], g.reqs, None)

\* Resource.ensure_schema_loaded; out is None or the exception
ensure_schema_loaded(self, response) ==
  IF self.schema = Unset THEN Done(self, <<>>, Err("RecursionError"))
  ELSE IF Truthy(self.schema) THEN Done(self, <<>>, None)
  ELSE store_schema(self, get(self, DefaultParams, <<>>, <<>>, response))

\* lines 36-39, l being what ensure_schema_loaded did
attr_of(l, name) ==
  IF IsErr(l.out) THEN l
  ELSE IF HasKey(l.node.schema, name)
       THEN Done(l.node, l.reqs, DictGet(l.node.schema, name))
       ELSE Done(l.node, l.reqs, handle_status(404))

getattr(self, name, response) == attr_of(ensure_schema_loaded(self, response), name)

\* line 43
item_of(l, name) ==
  IF IsErr(l.out) THEN l
  ELSE IF HasKey(l.node.schema, name)
       THEN Done(l.node, l.reqs, DictGet(l.node.schema, name))
       ELSE Done(l.node, l.reqs, Err("KeyError"))

getitem(self, name, response) == item_of(ensure_schema_loaded(self, response), name)

\* line 65
keys_of(l) ==
  IF IsErr(l.out) THEN l
  ELSE Done(l.node, l.reqs, [t |-> "keys", ks |-> DictKeys(l.node.schema)])

keys(self, response) == keys_of(ensure_schema_loaded(self, response))

\* lines 50-56
repr_of(l) ==
  IF IsErr(l.out) THEN l
  ELSE Done(l.node, l.reqs,
            [t |-> "repr", name |-> l.node.name, ks |-> DictKeys(l.node.schema)])

repr(self, response) == repr_of(ensure_schema_loaded(self, response))

accessor(kind, self, name, response) ==
  CASE kind = "getattr" -> getattr(self, name, response)
    [] kind = "getitem" -> getitem(self, name, response)
    [] kind = "keys" -> keys(self, response)
    [] kind = "repr" -> repr(self, response)

----------------------------------------------------------------------------
(* Child nodes are addressed by the path of lookups that reaches them:    *)
(* a selector [k, i] is schema[k] (i = 0) or schema[k][i - 1] (i > 0).     *)

Sel(k, i) == [k |-> k, i |-> i]

RECURSIVE Paths(_, _)
Paths(node, depth) ==
  {<<>>} \cup
  IF depth = 0 \/ node.schema.t # "dict" THEN {}
  ELSE UNION {
    LET v == node.schema.kv[e].v
        k == node.schema.kv[e].k
    IN IF v.t = "res" THEN {<<Sel(k, 0)>> \o p : p \in Paths(v, depth - 1)}
       ELSE IF v.t = "list"
            THEN UNION {{<<Sel(k, j)>> \o p : p \in Paths(v.el[j], depth - 1)} :
                        j \in {x \in 1..Len(v.el) : v.el[x].t = "res"}}
            ELSE {}
    : e \in 1..Len(node.schema.kv)}

Child(node, sel) ==
  LET v == DictGet(node.schema, sel.k)
  IN IF sel.i = 0 THEN v ELSE v.el[sel.i]

RECURSIVE NodeAt(_, _)
NodeAt(node, path) ==
  IF Len(path) = 0 THEN node ELSE NodeAt(Child(node, Head(path)), Tail(path))

\* the node with the child at sel replaced by sub
PutChild(node, sel, sub) ==
  [node EXCEPT !.schema =
     DictSet(node.schema, sel.k,
             IF sel.i = 0 THEN sub
             ELSE JList([DictGet(node.schema, sel.k).el EXCEPT ![sel.i] = sub]))]

RECURSIVE SetAt(_, _, _)
SetAt(node, path, new) ==
  IF Len(path) = 0 THEN new
  ELSE PutChild(node, Head(path), SetAt(Child(node, Head(path)), Tail(path), new))

----------------------------------------------------------------------------
(* Inputs *)

MaxDepth == 1

Sessions == {"s1", "s2"}

U0 == JStr(<<Lit("https://x/")>>)
U1 == JStr(<<Lit("https://x/users/"), Var("user")>>)
U2 == JStr(<<Lit("https://x/repos/"), Var("owner"), Lit("/"), Var("repo")>>)
UItems == JStr(<<Lit("https://x/items")>>)
UOther == JStr(<<Lit("https://y/")>>)

RootUrls == {U0, U1, U2}

Obj1(k1, v1) == JDict(<<Entry(k1, v1)>>)
Obj2(k1, v1, k2, v2) == JDict(<<Entry(k1, v1), Entry(k2, v2)>>)

IdObj(n) == Obj1(<<"id">>, JNum(n))
StrA == JStr(<<Lit("a")>>)

BodyScalar == JNum(5)
BodyList == JList(<<IdObj(1)>>)
BodyFlat == Obj2(<<"items", "">>, UItems, <<"name">>, StrA)
BodyNested == Obj2(<<"owner">>, IdObj(1), <<"next", "">>, None)
BodyEmptyNested == Obj1(<<"owner">>, JDict(<<>>))
BodyArray == Obj1(<<"items">>, JList(<<IdObj(1), IdObj(2)>>))
BodyUrl == Obj2(<<"url">>, UOther, <<"name">>, StrA)

\* bodies that are a bare JSON value: a number, a string, null
ScalarBodies == {BodyScalar, StrA, None}

Bodies == {EmptyText, BodyList, BodyFlat, BodyNested,
           BodyEmptyNested, BodyArray, BodyUrl} \cup ScalarBodies

\* error statuses come with no body, with an object or with a bare value
Responses == {Response(200, b) : b \in Bodies}
             \cup {Response(404, EmptyText), Response(500, EmptyText),
                   Response(404, BodyFlat), Response(500, BodyScalar)}

Names == {<<"name">>, <<"items">>, <<"zz">>}

\* the accessor calls: a kind and, for the two lookups, the key looked up
Accessors == {[kind |-> k, name |-> n] : k \in {"getattr", "getitem"}, n \in Names}
             \cup {[kind |-> k, name |-> <<>>] : k \in {"keys", "repr"}}

ParamSets == {DefaultParams, "headers"}

NoKw == <<>>
KwUser == <<Entry("user", "a")>>
KwRepo == <<Entry("owner", "a"), Entry("repo", "b")>>

\* the template arguments of a verb call: positional args and keyword args
Bindings == {[args |-> <<>>, kwargs |-> NoKw], [args |-> <<"a">>, kwargs |-> NoKw],
             [args |-> <<>>, kwargs |-> KwUser], [args |-> <<>>, kwargs |-> KwRepo]}

\* the answers tried where a second node is read after a first call
FewResponses == {Response(200, EmptyText), Response(200, BodyFlat),
                 Response(404, EmptyText)}

Idle == [op |-> "none"]

\* what the transport is asked: nothing when the operation sends no request
NoResponse == Response(0, EmptyText)
Probe == Response(500, EmptyText)
Answers(reqs) == IF Len(reqs) = 0 THEN {NoResponse} ELSE Responses
FewAnswers(reqs) == IF Len(reqs) = 0 THEN {NoResponse} ELSE FewResponses

----------------------------------------------------------------------------
(* Spec: a caller holding a root node walks the graph with the accessors  *)
(* and the call shorthand.  sent is what the transport received during    *)
(* the latest operation, last the operation and what it returned.         *)

Init ==
  /\ \E s \in Sessions, u \in RootUrls : nodes = <<Resource(s, u, None, "root")>>
  /\ sent = <<>>
  /\ last = Idle

AccessStep(i, path, a, response, self, r) ==
  /\ nodes' = [nodes EXCEPT ![i] = SetAt(nodes[i], path, r.node)]
  /\ sent' = r.reqs
  /\ last' = [op |-> "access", i |-> i, path |-> path, kind |-> a.kind,
              name |-> a.name, before |-> self, after |-> r.node,
              response |-> response, out |-> r.out]

\* node.<name>, node[<name>], node.keys() or repr(node) on the node at path
AccessOn(i, path, a, response) ==
  /\ response \in Answers(accessor(a.kind, NodeAt(nodes[i], path), a.name, Probe).reqs)
  /\ AccessStep(i, path, a, response, NodeAt(nodes[i], path),
                accessor(a.kind, NodeAt(nodes[i], path), a.name, response))

InvokeStep(i, path, kwargs, response, self, r) ==
  /\ nodes' = [nodes EXCEPT ![i] = SetAt(nodes[i], path, r.node)]
  /\ sent' = r.reqs
  /\ last' = [op |-> "call", i |-> i, path |-> path, kwargs |-> kwargs,
              before |-> self, after |-> r.node, response |-> response,
              out |-> r.out]

\* node(**kwargs) on the node at path; the returned node is in last.out
InvokeOn(i, path, kwargs, response) ==
  /\ response \in Answers(call(NodeAt(nodes[i], path), <<>>, kwargs, Probe).reqs)
  /\ InvokeStep(i, path, kwargs, response, NodeAt(nodes[i], path),
                call(NodeAt(nodes[i], path), <<>>, kwargs, response))

Access ==
  \E i \in 1..Len(nodes) : \E path \in Paths(nodes[i], MaxDepth) :
    \E a \in Accessors, response \in Responses \cup {NoResponse} :
      AccessOn(i, path, a, response)

Invoke ==
  \E i \in 1..Len(nodes) : \E path \in Paths(nodes[i], MaxDepth) :
    \E kwargs \in {NoKw, KwUser}, response \in Responses \cup {NoResponse} :
      InvokeOn(i, path, kwargs, response)

Next == Access \/ Invoke

Spec == Init /\ [][Next]_vars

----------------------------------------------------------------------------
(* VerbSpec: from each start node, Unloaded or built from a payload, the  *)
(* caller makes one verb call, reads the node it returned, and drops it.  *)

Payloads == {None, Obj2(<<"name">>, StrA, <<"owner">>, IdObj(1)), BodyEmptyNested}

InitVerb ==
  /\ \E s \in Sessions, u \in RootUrls, d \in Payloads :
       nodes = <<Resource(s, u, d, "root")>>
  /\ sent = <<>>
  /\ last = Idle

VerbStep(i, path, method, request_params, b, response, self, r) ==
  /\ nodes' = [nodes EXCEPT ![i] = SetAt(nodes[i], path, r.node)]
  /\ sent' = r.reqs
  /\ last' = [op |-> "verb", i |-> i, path |-> path, method |-> method,
              params |-> request_params, args |-> b.args, kwargs |-> b.kwargs,
              before |-> self, after |-> r.node, response |-> response,
              out |-> r.out]

\* node.<method>(request_params, *args, **kwargs) on the node at path
VerbOn(i, path, method, request_params, b, response) ==
  /\ last = Idle
  /\ response \in Answers(verb(method, NodeAt(nodes[i], path), request_params,
                               b.args, b.kwargs, Probe).reqs)
  /\ VerbStep(i, path, method, request_params, b, response, NodeAt(nodes[i], path),
              verb(method, NodeAt(nodes[i], path), request_params,
                   b.args, b.kwargs, response))

ResultStep(a, response, r) ==
  /\ nodes' = nodes
  /\ sent' = r.reqs
  /\ last' = [op |-> "result", kind |-> a.kind, name |-> a.name,
              verb |-> last, before |-> last.out, after |-> r.node,
              response |-> response, out |-> r.out]

\* an accessor on the node the verb call returned
AccessResultBy(a, response) ==
  /\ last.op = "verb"
  /\ last.out.t = "res"
  /\ response \in FewAnswers(accessor(a.kind, last.out, a.name, Probe).reqs)
  /\ ResultStep(a, response, accessor(a.kind, last.out, a.name, response))

\* the caller drops what the last call returned
Drop ==
  /\ last # Idle
  /\ nodes' = nodes
  /\ sent' = <<>>
  /\ last' = Idle

Verb ==
  \E i \in 1..Len(nodes) : \E path \in Paths(nodes[i], MaxDepth) :
    \E method \in Methods, request_params \in ParamSets, b \in Bindings,
       response \in Responses \cup {NoResponse} :
      VerbOn(i, path, method, request_params, b, response)

AccessResult ==
  \E a \in Accessors, response \in FewResponses \cup {NoResponse} :
    AccessResultBy(a, response)

NextVerb == Verb \/ AccessResult \/ Drop

VerbSpec == InitVerb /\ [][NextVerb]_vars

----------------------------------------------------------------------------
(* ParserSpec: the caller hands a JSON object to parse_schema_dict of the *)
(* root node, reads one child node of the schema it gave, and drops it.   *)

MaxKeys == 2

ItemsUrl == <<"items", "">>
InnerUrl == <<"a", "_b", "">>
AvatarTemplate == <<"avatar", "_template">>

ParserKeys == {ItemsUrl, <<"items">>, <<"name">>, <<"owner">>, <<"users_ids">>,
               InnerUrl, AvatarTemplate}

EmptyStr == JStr(<<>>)

ParserValues == {None, EmptyStr, StrA, UItems, JDict(<<>>), IdObj(1),
                 Obj1(<<"url">>, UOther), JList(<<IdObj(1), IdObj(2)>>),
                 JList(<<JDict(<<>>)>>), JList(<<StrA>>)}

\* the JSON objects of n keys, in every key order
RECURSIVE ObjectsOf(_)
ObjectsOf(n) ==
  IF n = 0 THEN {<<>>}
  ELSE {Append(kv, Entry(k, v)) :
          kv \in ObjectsOf(n - 1), k \in ParserKeys, v \in ParserValues}

DistinctKeys(kv) == \A i, j \in 1..Len(kv) : kv[i].k = kv[j].k => i = j

\* the JSON objects of at most n distinct keys
Objects(n) == {JDict(kv) : kv \in {x \in UNION {ObjectsOf(m) : m \in 0..n} :
                                     DistinctKeys(x)}}

InitParser ==
  /\ \E s \in Sessions : nodes = <<Resource(s, U0, None, "root")>>
  /\ sent = <<>>
  /\ last = Idle

\* nodes[1].parse_schema_dict(data)
Parse ==
  /\ last = Idle
  /\ \E data \in Objects(MaxKeys) :
       /\ nodes' = nodes
       /\ sent' = <<>>
       /\ last' = [op |-> "parse", data |-> data,
                   out |-> parse_schema_dict(nodes[1].session, data)]

\* the child nodes of a parsed schema, by selector
ChildSels(schema) ==
  {Sel(schema.kv[e].k, 0) : e \in {x \in 1..Len(schema.kv) : schema.kv[x].v.t = "res"}}
  \cup UNION {{Sel(schema.kv[e].k, j) : j \in 1..Len(schema.kv[e].v.el)} :
              e \in {x \in 1..Len(schema.kv) : schema.kv[x].v.t = "list"}}

ChildOf(schema, sel) ==
  IF sel.i = 0 THEN DictGet(schema, sel.k) ELSE DictGet(schema, sel.k).el[sel.i]

ReadStep(sel, a, response, r) ==
  /\ nodes' = nodes
  /\ sent' = r.reqs
  /\ last' = [op |-> "read", data |-> last.data, schema |-> last.out, sel |-> sel,
              kind |-> a.kind, name |-> a.name, before |-> ChildOf(last.out, sel),
              after |-> r.node, response |-> response, out |-> r.out]

\* an accessor on a child node of the schema just parsed
Read ==
  /\ last.op = "parse"
  /\ last.out.t = "dict"
  /\ \E sel \in ChildSels(last.out) :
       \E a \in Accessors, response \in FewResponses \cup {NoResponse} :
         /\ response \in FewAnswers(accessor(a.kind, ChildOf(last.out, sel), a.name, Probe).reqs)
         /\ ReadStep(sel, a, response,
                     accessor(a.kind, ChildOf(last.out, sel), a.name, response))

NextParser == Parse \/ Read \/ Drop

ParserSpec == InitParser /\ [][NextParser]_vars

----------------------------------------------------------------------------
(* Properties *)

\* line 69: a node whose schema is set and true needs no fetch
Loaded(n) == n.schema # Unset /\ Truthy(n.schema)

\* a node with a url and the empty schema of line 27
Unloaded(n) == n.url # Unset /\ n.schema = JDict(<<>>)

\* the key with its '_url' suffix stripped, in split form
Stripped(key) == SubSeq(key, 1, Len(key) - 1)

Scalar(v) == v.t \in {"null", "str", "num"}

\* entry e of data is the only one stored under its name
Unshadowed(data, e) ==
  \A j \in 1..Len(data.kv) :
    j # e => split_url_0(data.kv[j].k) # split_url_0(data.kv[e].k)

SameTarget == last'.i = last.i /\ last'.path = last.path

\* C1: once an accessor on a node has returned on a success response, every
\* later accessor on that node sends no request and returns the same data,
\* whatever the body was (an empty body included).
C1_FetchedOnce ==
  [][(/\ last.op = "access"
      /\ last.kind \in {"keys", "repr"}
      /\ ~IsErr(last.out)
      /\ last'.op = "access"
      /\ SameTarget)
     => /\ Len(sent') = 0
        /\ (last'.kind = last.kind => last'.out = last.out)]_vars

\* an accessor whose one request was answered by an error status or by a
\* body that has no representation
FetchFailed ==
  /\ last.op = "access"
  /\ Len(sent) = 1
  /\ IsErr(last.out)
  /\ \/ last.response.status_code >= 400
     \/ last.response.text = BodyScalar

\* C2: a failed fetch raises to the caller without a retry and leaves the
\* node as it was (Unloaded, same url, label and session); the next accessor
\* on the node sends a new request and, when it returns, the node is Loaded.
C2_FailedFetchRetry ==
  [][/\ FetchFailed => (last.after = last.before /\ Unloaded(last.after))
     /\ (FetchFailed /\ last'.op = "access" /\ SameTarget)
        => /\ Len(sent') = 1
           /\ (last'.kind = "keys" /\ ~IsErr(last'.out)) => Loaded(last'.after)]_vars

\* C3: a verb call, whether it returns or raises, leaves the node it was
\* invoked on (url, label, schema, session) and the rest of the graph as
\* they were; what it returns is a node of its own.
C3_VerbLeavesNode ==
  [][last'.op = "verb"
     => /\ nodes' = nodes
        /\ last'.after = last'.before
        /\ (~IsErr(last'.out) => last'.out.t = "res")]_vars

\* a verb call on an Unloaded node returned a Loaded node
C3_Witness ==
  /\ last.op = "verb"
  /\ last.out.t = "res"
  /\ Unloaded(last.before)
  /\ Loaded(last.out)

PlainBodies == {EmptyText, BodyFlat, BodyNested, BodyEmptyNested, BodyUrl}

\* C4: each of the seven verb operations, on a node with a url, sends exactly
\* one request carrying its method and, on a success response, returns a node.
C4_EveryVerbSends ==
  (last.op = "verb" /\ last.before.url # Unset)
  => /\ Len(sent) = 1
     /\ sent[1].method = last.method
     /\ (last.response.status_code = 200 /\ last.response.text \in PlainBodies)
        => last.out.t = "res"

\* C5: a verb call with a positional template argument on a node whose
\* template does not declare exactly one variable raises before any request
\* is sent.
C5_AmbiguousFailsFast ==
  (/\ last.op = "verb"
   /\ Len(last.args) = 1
   /\ last.before.url # Unset
   /\ Cardinality(variables(last.before.url)) # 1)
  => (Len(sent) = 0 /\ IsErr(last.out))

\* C6: parsing an object puts, for every key ending in '_url' with a true
\* value, an Unloaded node with that value as url and the parent's session
\* under the key with the suffix stripped, and every scalar under a key
\* without the suffix unchanged under that key.
C6_LinksAndScalars ==
  (last.op = "parse" /\ last.out.t = "dict")
  => \A e \in 1..Len(last.data.kv) :
       /\ (endswith_url(last.data.kv[e].k) /\ Truthy(last.data.kv[e].v))
          => /\ HasKey(last.out, Stripped(last.data.kv[e].k))
             /\ DictGet(last.out, Stripped(last.data.kv[e].k)).t = "res"
             /\ Unloaded(DictGet(last.out, Stripped(last.data.kv[e].k)))
             /\ DictGet(last.out, Stripped(last.data.kv[e].k)).url = last.data.kv[e].v
             /\ DictGet(last.out, Stripped(last.data.kv[e].k)).session = nodes[1].session
       /\ (~endswith_url(last.data.kv[e].k) /\ Scalar(last.data.kv[e].v))
          => /\ HasKey(last.out, last.data.kv[e].k)
             /\ DictGet(last.out, last.data.kv[e].k) = last.data.kv[e].v

\* C7: parsing an object puts, for every key ending in '_url' whose value is
\* null or the empty string, that same value (never a node) under the key
\* with the suffix stripped.
C7_EmptyLinkKept ==
  (last.op = "parse" /\ last.out.t = "dict")
  => \A e \in 1..Len(last.data.kv) :
       (endswith_url(last.data.kv[e].k) /\ last.data.kv[e].v \in {None, EmptyStr})
       => /\ HasKey(last.out, Stripped(last.data.kv[e].k))
          /\ DictGet(last.out, Stripped(last.data.kv[e].k)) = last.data.kv[e].v

\* C8: the child node parsed from a nested object under a non-link key (the
\* empty object included) answers every accessor without a request: keys()
\* and repr return the nested object's own fields and a lookup never fails
\* other than for a missing key.
C8_NestedObjectLoaded ==
  (last.op = "read" /\ last.sel.i = 0)
  => \A e \in 1..Len(last.data.kv) :
       (/\ last.data.kv[e].k = last.sel.k
        /\ last.data.kv[e].v.t = "dict"
        /\ Unshadowed(last.data, e))
       => /\ Len(sent) = 0
          /\ IsErr(last.out) => (/\ last.kind \in {"getattr", "getitem"}
                                 /\ last.out.e \in {"ClientError", "KeyError"})
          /\ (last.kind \in {"keys", "repr"})
             => last.out.ks = DictKeys(last.data.kv[e].v)

\* C9: parsing puts, for every array under a non-link key, a sequence with
\* one node per element in the array's order, each Loaded with the element's
\* fields, all carrying the singular form of the key as label.
C9_ArrayToNodes ==
  last.op = "parse"
  => \A e \in 1..Len(last.data.kv) :
       (/\ ~endswith_url(last.data.kv[e].k)
        /\ last.data.kv[e].v.t = "list"
        /\ Unshadowed(last.data, e))
       => /\ last.out.t = "dict"
          /\ HasKey(last.out, <<split_url_0(last.data.kv[e].k)>>)
          /\ DictGet(last.out, <<split_url_0(last.data.kv[e].k)>>).t = "list"
          /\ Len(DictGet(last.out, <<split_url_0(last.data.kv[e].k)>>).el)
               = Len(last.data.kv[e].v.el)
          /\ \A j \in 1..Len(last.data.kv[e].v.el) :
               /\ DictGet(last.out, <<split_url_0(last.data.kv[e].k)>>).el[j].t = "res"
               /\ Loaded(DictGet(last.out, <<split_url_0(last.data.kv[e].k)>>).el[j])
               /\ DictKeys(DictGet(last.out, <<split_url_0(last.data.kv[e].k)>>).el[j].schema)
                    = DictKeys(last.data.kv[e].v.el[j])
               /\ DictGet(last.out, <<split_url_0(last.data.kv[e].k)>>).el[j].name
                    = humanize(singularize(split_url_0(last.data.kv[e].k)))

\* C10: the node a verb call returns for a success response with an empty
\* body has the empty mapping as schema, and keys() on it is empty and sends
\* no request.
C10_EmptyBodyLoaded ==
  /\ (last.op = "verb" /\ last.response = Response(200, EmptyText))
     => (last.out.t = "res" /\ last.out.schema = JDict(<<>>))
  /\ (/\ last.op = "result"
      /\ last.verb.response = Response(200, EmptyText)
      /\ last.kind = "keys")
     => (Len(sent) = 0 /\ ~IsErr(last.out) /\ last.out.ks = <<>>)

\* C11: whenever a request is answered with a 4xx or 5xx status, the call
\* ends in the ClientError (4xx) or ServerError (5xx) of that code whatever
\* the body is: the body is not decoded or parsed, no node is made from it
\* and the node the call was made on is as before.
C11_StatusBeforeBody ==
  (/\ last.op \in {"verb", "result"}
   /\ Len(sent) = 1
   /\ last.response.status_code >= 400)
  => /\ last.out.t = "err"
     /\ last.out.e = (IF last.response.status_code >= 500
                      THEN "ServerError" ELSE "ClientError")
     /\ last.out.code = last.response.status_code
     /\ last.after = last.before

\* a 500 answer whose body is a bare number ended in the ServerError
C11_Witness ==
  /\ last.op = "verb"
  /\ last.response = Response(500, BodyScalar)
  /\ last.out = StatusErr("ServerError", 500)

\* C12: a verb call answered with a success status and a JSON array of
\* objects returns a node whose schema is the sequence of one Loaded node
\* per element, in the body's order.
C12_ArrayBody ==
  (/\ last.op = "verb"
   /\ Len(sent) = 1
   /\ last.response = Response(200, BodyList))
  => /\ last.out.t = "res"
     /\ last.out.schema.t = "list"
     /\ Len(last.out.schema.el) = Len(BodyList.el)
     /\ \A j \in 1..Len(BodyList.el) :
          /\ last.out.schema.el[j].t = "res"
          /\ Loaded(last.out.schema.el[j])
          /\ DictKeys(last.out.schema.el[j].schema) = DictKeys(BodyList.el[j])

\* C13: a request answered with a success status and a body that is a bare
\* JSON value (number, string, null) ends in the fatal error raised to the
\* caller: nothing is returned, and the node the call was made on is as
\* before, so a node that was Unloaded is still Unloaded.
C13_BareValueFatal ==
  (/\ last.op \in {"access", "call"}
   /\ Len(sent) = 1
   /\ last.response.status_code = 200
   /\ last.response.text \in ScalarBodies)
  => /\ last.out = Err("Exception")
     /\ last.after = last.before
     /\ nodes[last.i] = SetAt(nodes[last.i], last.path, last.before)
     /\ Unloaded(last.before) => Unloaded(NodeAt(nodes[last.i], last.path))

\* a lazy load of an Unloaded node got the body null and raised
C13_Witness ==
  /\ last.op = "access"
  /\ last.response = Response(200, None)
  /\ Unloaded(last.before)
  /\ last.out = Err("Exception")

\* C14: a keyed lookup, by attribute or by item, on a node that is Loaded
\* once the lookup has ensured it returns the stored value when the key is
\* in the schema and fails with the NotFound error (404) when it is not.
C14_LookupNotFound ==
  (/\ last.op = "access"
   /\ last.kind \in {"getattr", "getitem"}
   /\ Loaded(last.after)
   /\ last.after.schema.t = "dict")
  => IF HasKey(last.after.schema, last.name)
     THEN last.out = DictGet(last.after.schema, last.name)
     ELSE last.out = StatusErr("ClientError", 404)

\* C15: the node a verb call returns has as url the resolved URL the request
\* was sent to, whatever the body is, a body with a 'url' field included.
C15_ResultUrl ==
  (last.op = "verb" /\ last.out.t = "res")
  => /\ Len(sent) = 1
     /\ last.out.url = sent[1].url

\* C16: one accessor call (attribute lookup, item lookup, keys(), repr) on a
\* node, Loaded or not, sends at most one request, whatever the answer is.
C16_AtMostOneRequest ==
  last.op = "access" => Len(sent) <= 1

\* an accessor on an Unloaded node sent its one request and loaded the node
C16_Witness ==
  /\ last.op = "access"
  /\ Unloaded(last.before)
  /\ Len(sent) = 1
  /\ Loaded(last.after)

\* C17: loading a node sends no request for its descendants: every request
\* an accessor or node(**kwargs) sends goes to the url of the node it was
\* called on, and the link children of the answer's object are Unloaded
\* nodes afterwards, fetched only by an accessor called on them.
C17_NoDescendantFetch ==
  (last.op \in {"access", "call"})
  => /\ \A j \in 1..Len(sent) :
          /\ last.before.url # Unset
          /\ sent[j].url = expand(last.before.url,
                                  IF last.op = "call" THEN last.kwargs ELSE <<>>)
     /\ (/\ last.op = "access"
         /\ Len(sent) = 1
         /\ last.response.status_code = 200
         /\ last.response.text \in {BodyFlat, BodyNested}
         /\ ~IsErr(last.out))
        => \A e \in 1..Len(last.response.text.kv) :
             (/\ endswith_url(last.response.text.kv[e].k)
              /\ Truthy(last.response.text.kv[e].v))
             => /\ Unloaded(DictGet(last.after.schema,
                                    Stripped(last.response.text.kv[e].k)))
                /\ DictGet(last.after.schema,
                           Stripped(last.response.text.kv[e].k)).url
                     = last.response.text.kv[e].v

\* an accessor called on a link child of a loaded node sent the child's
\* own request
C17_Witness ==
  /\ last.op = "access"
  /\ Len(last.path) = 1
  /\ Len(sent) = 1
  /\ sent[1].url = UItems

\* the text of a url: its parts run together
RECURSIVE Text(_)
Text(parts) == IF Len(parts) = 0 THEN <<>> ELSE <<Head(parts).s>> \o Text(Tail(parts))

\* C18: a verb call with one positional argument on a template of exactly
\* one variable sends its request to the template with that variable
\* replaced by the argument; with named arguments only, to the template
\* with exactly the named variables replaced.
C18_Binding ==
  (last.op = "verb" /\ Len(sent) = 1)
  => /\ (last.before.url = U1 /\ last.args = <<"a">> /\ last.kwargs = NoKw)
        => Text(sent[1].url.s) = <<"https://x/users/", "a">>
     /\ (last.before.url = U1 /\ last.args = <<>> /\ last.kwargs = KwUser)
        => Text(sent[1].url.s) = <<"https://x/users/", "a">>
     /\ (last.before.url = U2 /\ last.args = <<>> /\ last.kwargs = KwRepo)
        => Text(sent[1].url.s) = <<"https://x/repos/", "a", "/", "b">>
     /\ (last.before.url = U2 /\ last.args = <<>> /\ last.kwargs = KwUser)
        => Text(sent[1].url.s) = <<"https://x/repos/", "/">>
     /\ (last.before.url = U0 /\ last.args = <<>>)
        => Text(sent[1].url.s) = <<"https://x/">>

\* a verb call bound its one positional argument to the one variable
C18_Witness ==
  /\ last.op = "verb"
  /\ last.before.url = U1
  /\ last.args = <<"a">>
  /\ Len(sent) = 1
  /\ Text(sent[1].url.s) = <<"https://x/users/", "a">>

\* C19: parsing an object stores every key that does not end in '_url' under
\* exactly its own name, also when '_url' occurs inside the key, and stores
\* no two keys under one name: the schema has as many entries as the object
\* has keys.
C19_KeysFaithful ==
  (last.op = "parse" /\ last.out.t = "dict")
  => /\ \A e \in 1..Len(last.data.kv) :
          ~endswith_url(last.data.kv[e].k) => HasKey(last.out, last.data.kv[e].k)
     /\ Len(last.out.kv) = Len(last.data.kv)

\* C20: the node a verb call returns for a success answer that is a JSON
\* object has as schema what parsing the body once gives: parsing the parsed
\* schema again in the constructor does not fail and changes nothing.
C20_ReparseIdempotent ==
  (/\ last.op = "verb"
   /\ Len(sent) = 1
   /\ last.response.status_code = 200
   /\ last.response.text # EmptyText
   /\ last.response.text.t = "dict"
   /\ ~IsErr(parse_schema_dict(last.before.session, last.response.text)))
  => /\ last.out.t = "res"
     /\ last.out.schema = parse_schema_dict(last.before.session, last.response.text)

====
